---- MODULE Spec2Model ----
(***************************************************************************)
(* A model of the reactor package: Trigger (trigger.go), the callback      *)
(* decorators Async / Concurrent / Conditional, and the two ordered        *)
(* dispatch queues conRead / conWrite with their consumer goroutines.      *)
(*                                                                         *)
(* A goroutine that calls into the package is a thread with a call stack   *)
(* of frames; every statement of Value / SetValue / Concurrent is one      *)
(* step.  The body of a plain (undecorated) callback is user code: its     *)
(* execution is recorded as one "cb" event of a history variable: trace of  *)
(* the calling thread, shared when a consumer or an Async goroutine runs it.*)
(***************************************************************************)
EXTENDS Integers, Sequences, FiniteSets, TLC

VARIABLES
    value,          \* Trigger.value, per Trigger
    Lock,           \* Trigger.Lock: the thread holding it, or NoThread
    readCallbacks,  \* Trigger.readCallbacks, per Trigger
    writeCallbacks, \* Trigger.writeCallbacks, per Trigger
    bindings,       \* Trigger.bindings, per Trigger
    conLock,        \* conReadLock / conWriteLock: the thread holding it
    conMade,        \* per direction: conRead / conWrite is not nil
    conBuf,         \* per direction: the buffered entries of the channel
    consumers,      \* per direction: the consumer goroutines and what they hold
    tasks,          \* goroutines started by Async and not yet run
    made,           \* the callbacks returned by Concurrent() so far
    stack,          \* per thread: its call stack, innermost frame last
    trace,          \* history, per thread: its calls, returns and inline callbacks
    shared          \* history of the queues and of the goroutines they run

vars == <<value, Lock, readCallbacks, writeCallbacks, bindings, conLock, conMade,
          conBuf, consumers, tasks, made, stack, trace, shared>>

triggerVars == <<value, Lock, readCallbacks, writeCallbacks, bindings>>
queueVars == <<conLock, conMade, conBuf, consumers>>

----------------------------------------------------------------------------
(* Bounds of the model *)

\* the values a caller passes to SetValue are 1..MaxVal
MaxVal == 2
\* the number of Value / SetValue calls the callers make in one run
MaxCalls == 3
\* the number of callbacks registered on one Trigger, both lists together
MaxCallbacks == 3
\* the number of bindings added, all Triggers together
MaxBindings == 2
\* with bindings: the number of callbacks registered, all Triggers together
BindCallbacks == 2
\* with bindings: the number of SetValue calls the caller makes
BindCalls == 1
\* with two producers: the number of Value / SetValue calls they make
QueueCalls == 3
\* with one producer and both queues: the number of Value / SetValue calls
DrainCalls == 3
\* with Async callbacks: the number of Value / SetValue calls
AsyncCalls == 3
\* with teardown: the number of Value / SetValue calls and of teardowns
KillCalls == 3
MaxKills == 1
\* with a slow consumer: the number of Value / SetValue calls, and how many
\* entries short of full the queue is when the consumer is first scheduled
FullCalls == 102
FullSlack == 1
\* with callbacks that call back into the Trigger: the number of callbacks
\* registered and the number of Value / SetValue calls the callers make
LockCallbacks == 2
LockCalls == 2
\* in the loop SetValue(Value() + 1): the number of iterations
LoopIters == 3
\* with two goroutines writing one Trigger: the SetValue calls of each
RaceCalls == 2

----------------------------------------------------------------------------
(* Values, Triggers, threads *)

\* the nil interface value: the zero value of Trigger.value
NIL == 0
\* the capacity of conRead and of conWrite
QueueCap == 100

Vals == 1..MaxVal
Triggers == {"A", "B", "C"}
Threads == {"p1", "p2"}
NoThread == "none"
Dirs == {"read", "write"}

\* a callback is the sequence of its decorators, outermost first, ending in the
\* name of the plain function: <<"Conditional", "odd", "Concurrent", "f">>
Plain(f) == <<f>>

\* the direction of a callback invocation: a ReadCallback takes (v), a
\* WriteCallback takes (prev, v)
DirOf(args) == IF Len(args) = 1 THEN "read" ELSE "write"

\* the predicates handed to Conditional: "odd" holds when the (new) value is odd,
\* "grew" when the new value exceeds the previous one (nil counts as 0)
PredHolds(p, args) ==
    LET v == args[Len(args)]
    IN  CASE p = "odd"  -> v % 2 = 1
          [] p = "grew" -> Len(args) = 2 /\ v > args[1]
          [] OTHER      -> FALSE

\* the mapping functions handed to AddBinder
ApplyF(f, v) ==
    CASE f = "inc" -> v + 1
      [] OTHER     -> v

----------------------------------------------------------------------------
(* The history *)

Ev(e, who, t, cb, args, id) ==
    [e |-> e, who |-> who, t |-> t, cb |-> cb, args |-> args, id |-> id]

CountIn(tr, e) == Cardinality({i \in 1..Len(tr) : tr[i].e = e})

\* how often callback c is registered in list
Occ(list, c) == Cardinality({i \in DOMAIN list : list[i] = c})

----------------------------------------------------------------------------
(* Invoking a callback value *)

\* the send made on a channel of capacity 1 without blocking: the entry is
\* dropped while another one waits
SendOrDrop(buf, entry) == IF buf = <<>> THEN <<entry>> ELSE buf

\* the entry put in front of the waiting ones
SendFront(buf, entry) == <<entry>> \o buf

\* conRead <- conReadState{v, r}: the entry joins the tail of the channel buffer
Send(buf, entry) == Append(buf, entry)

\* conWriteState{prev, prev, w}: the first argument stored in every field
conStateFirst(args, r, id) ==
    [id |-> id, f |-> r, args |-> [i \in DOMAIN args |-> args[1]]]

\* conReadState{v, r} / conWriteState{prev, v, w}: the arguments of this
\* invocation with the undecorated callback (id is the history's entry number)
conState(args, r, id) == [id |-> id, f |-> r, args |-> args]

\* go r(nil): the goroutine started without the arguments of the invocation
GoNil(ts, r, args, id) ==
    ts \cup {[id |-> id, f |-> r, args |-> [i \in DOMAIN args |-> NIL]]}

\* go r(v): a new goroutine that will run r with the arguments of this invocation
Go(ts, r, args, id) == ts \cup {[id |-> id, f |-> r, args |-> args]}

\* a channel made without a capacity limit
HasRoomAlways(buf) == TRUE

\* a send on the channel made by make(chan conReadState, 100) goes through
\* while fewer than 100 entries are buffered, and waits otherwise
HasRoom(buf) == Len(buf) < QueueCap

\* a Conditional that forwards every invocation, whatever f returns
ForwardAlways(p, args) == TRUE

\* if f(v) { r(v) }: the invocation is forwarded when the predicate holds
Forward(p, args) == PredHolds(p, args)

\* The callback cb called with args by who, in world w = [ok, trace, shared,
\* tasks, conBuf].  ok = FALSE: the call blocks (a send on a nil or a full
\* channel).
\* t and id only label the events: the Trigger whose Value / SetValue made the
\* call, and the number of the queue entry or goroutine that carries it.
RECURSIVE Invoke(_, _, _, _, _, _)
Invoke(cb, args, who, t, id, w) ==
    IF ~w.ok THEN w
    ELSE
    CASE Head(cb) = "Async" ->
            LET n == CountIn(w.shared, "go") + 1
            IN  [w EXCEPT !.tasks = Go(w.tasks, Tail(cb), args, n),
                          !.shared = Append(w.shared,
                                       Ev("go", who, t, Tail(cb), args, n))]
      [] Head(cb) = "Concurrent" ->
            LET d  == DirOf(args)
                n == CountIn(w.shared, "enq") + 1
            IN  IF conMade[d] /\ HasRoom(w.conBuf[d])
                THEN [w EXCEPT !.conBuf[d] = Send(w.conBuf[d],
                                                  conState(args, Tail(cb), n)),
                               !.shared = Append(w.shared,
                                       Ev("enq", who, t, Tail(cb), args, n))]
                ELSE [w EXCEPT !.ok = FALSE]
      [] Head(cb) = "Conditional" ->
            IF Forward(cb[2], args)
            THEN Invoke(SubSeq(cb, 3, Len(cb)), args, who, t, id, w)
            ELSE w
      [] OTHER ->
            IF who \in Threads
            THEN [w EXCEPT !.trace[who] = Append(@, Ev("cb", who, t, cb, args, id))]
            ELSE [w EXCEPT !.shared = Append(@, Ev("cb", who, t, cb, args, id))]

World == [ok |-> TRUE, trace |-> trace, shared |-> shared, tasks |-> tasks,
          conBuf |-> conBuf]

----------------------------------------------------------------------------
(* Frames *)

Frame(op, t, v) ==
    [op |-> op, t |-> t, pc |-> "lock", v |-> v, prev |-> NIL, i |-> 1,
     cb |-> <<>>]

Top(th) == stack[th][Len(stack[th])]
Running(th) == stack[th] # <<>>

\* the position after a step: past the last callback comes the binding loop
\* (SetValue) or the return (Value); past the last binding comes the return
Advance(f) ==
    LET cbs == IF f.op = "Value" THEN readCallbacks[f.t] ELSE writeCallbacks[f.t]
        g == IF f.pc = "cb" /\ f.i > Len(cbs)
             THEN [f EXCEPT !.pc = IF f.op = "Value" THEN "ret" ELSE "bind",
                            !.i = 1]
             ELSE f
    IN  IF g.pc = "bind" /\ g.i > Len(bindings[g.t])
        THEN [g EXCEPT !.pc = "ret"]
        ELSE g

SetTop(th, f) == [stack EXCEPT ![th][Len(stack[th])] = f]

Push(th, f) == [stack EXCEPT ![th] = Append(@, f)]

\* the stack of th after its innermost call returned: the caller, if any, is in
\* its binding loop and moves on to the next binding
Pop(th) ==
    LET n == Len(stack[th])
        rest == SubSeq(stack[th], 1, n - 1)
    IN  IF n = 1 THEN [stack EXCEPT ![th] = <<>>]
        ELSE [stack EXCEPT ![th] =
                [rest EXCEPT ![n - 1] = Advance([@ EXCEPT !.i = @ + 1])]]

At(th, op, pc) == Running(th) /\ Top(th).op = op /\ Top(th).pc = pc

\* what thread th appends to its history
Log(th, ev) == [trace EXCEPT ![th] = Append(@, ev)]

\* the number of Value / SetValue calls made from outside the package
CallsOf(th) ==
    Cardinality({i \in 1..Len(trace[th]) :
                    trace[th][i].e = "call" /\ trace[th][i].id = 1})
RECURSIVE SumOver(_, _)
SumOver(S, n) ==
    IF S = {} THEN 0
    ELSE LET t == CHOOSE x \in S : TRUE
         IN  n[t] + SumOver(S \ {t}, n)
Calls == SumOver(Threads, [th \in Threads |-> CallsOf(th)])

----------------------------------------------------------------------------
(* Trigger.Value *)

\* a goroutine calls t.Value()
CallValue(th, t) ==
    /\ ~Running(th)
    /\ stack' = Push(th, Frame("Value", t, NIL))
    /\ trace' = Log(th, Ev("call", th, t, <<"Value">>, <<>>, 1))
    /\ UNCHANGED <<triggerVars, queueVars, tasks, made, shared>>

\* t.Lock.Lock()
ValueLock(th) ==
    /\ At(th, "Value", "lock")
    /\ Lock[Top(th).t] = NoThread
    /\ Lock' = [Lock EXCEPT ![Top(th).t] = th]
    /\ stack' = SetTop(th, [Top(th) EXCEPT !.pc = "load"])
    /\ UNCHANGED <<value, readCallbacks, writeCallbacks, bindings, queueVars,
                   tasks, made, trace, shared>>

\* the read of t.value left out: v keeps its zero value
ValueLoadZero(th) ==
    /\ At(th, "Value", "load")
    /\ stack' = SetTop(th, [Top(th) EXCEPT !.pc = "unlock"])
    /\ UNCHANGED <<triggerVars, queueVars, tasks, made, trace, shared>>

\* v := t.value
ValueLoad(th) ==
    /\ At(th, "Value", "load")
    /\ stack' = SetTop(th, [Top(th) EXCEPT !.v = value[Top(th).t],
                                           !.pc = "unlock"])
    /\ UNCHANGED <<triggerVars, queueVars, tasks, made, trace, shared>>

\* t.Lock.Unlock()
ValueUnlock(th) ==
    /\ At(th, "Value", "unlock")
    /\ Lock' = [Lock EXCEPT ![Top(th).t] = NoThread]
    /\ stack' = SetTop(th, Advance([Top(th) EXCEPT !.pc = "cb", !.i = 1]))
    /\ UNCHANGED <<value, readCallbacks, writeCallbacks, bindings, queueVars,
                   tasks, made, trace, shared>>

\* the loop body written go c(v): the callback is left to a new goroutine
ValueCallbackDetached(th) ==
    /\ At(th, "Value", "cb")
    /\ LET f == Top(th)
       IN  /\ tasks' = Go(tasks, readCallbacks[f.t][f.i], <<f.v>>,
                          Cardinality(tasks) + 1)
           /\ stack' = SetTop(th, Advance([f EXCEPT !.i = @ + 1]))
    /\ UNCHANGED <<triggerVars, queueVars, made, trace, shared>>

\* one iteration of: for _,c := range t.readCallbacks { c(v) }
ValueCallback(th) ==
    /\ At(th, "Value", "cb")
    /\ LET f == Top(th)
           w == Invoke(readCallbacks[f.t][f.i], <<f.v>>, th, f.t, 0, World)
       IN  /\ w.ok
           /\ trace' = w.trace
           /\ shared' = w.shared
           /\ tasks' = w.tasks
           /\ conBuf' = w.conBuf
           /\ stack' = SetTop(th, Advance([f EXCEPT !.i = @ + 1]))
    /\ UNCHANGED <<triggerVars, conLock, conMade, consumers, made>>

\* return v
ValueReturn(th) ==
    /\ At(th, "Value", "ret")
    /\ trace' = Log(th, Ev("ret", th, Top(th).t, <<"Value">>, <<Top(th).v>>,
                            Len(stack[th])))
    /\ stack' = Pop(th)
    /\ UNCHANGED <<triggerVars, queueVars, tasks, made, shared>>

----------------------------------------------------------------------------
(* Trigger.SetValue *)

\* a goroutine calls t.SetValue(v)
CallSetValue(th, t, v) ==
    /\ ~Running(th)
    /\ stack' = Push(th, Frame("SetValue", t, v))
    /\ trace' = Log(th, Ev("call", th, t, <<"SetValue">>, <<v>>, 1))
    /\ UNCHANGED <<triggerVars, queueVars, tasks, made, shared>>

\* t.Lock.Lock() left out: SetValue goes on whoever holds the lock
SetValueLockFree(th) ==
    /\ At(th, "SetValue", "lock")
    /\ Lock' = [Lock EXCEPT ![Top(th).t] = th]
    /\ stack' = SetTop(th, [Top(th) EXCEPT !.pc = "load"])
    /\ UNCHANGED <<value, readCallbacks, writeCallbacks, bindings, queueVars,
                   tasks, made, trace, shared>>

\* t.Lock.Lock()
SetValueLock(th) ==
    /\ At(th, "SetValue", "lock")
    /\ Lock[Top(th).t] = NoThread
    /\ Lock' = [Lock EXCEPT ![Top(th).t] = th]
    /\ stack' = SetTop(th, [Top(th) EXCEPT !.pc = "load"])
    /\ UNCHANGED <<value, readCallbacks, writeCallbacks, bindings, queueVars,
                   tasks, made, trace, shared>>

\* prev taken from the value being stored instead of the one stored before
SetValueLoadNew(th) ==
    /\ At(th, "SetValue", "load")
    /\ stack' = SetTop(th, [Top(th) EXCEPT !.prev = Top(th).v, !.pc = "store"])
    /\ UNCHANGED <<triggerVars, queueVars, tasks, made, trace, shared>>

\* prev := t.value
SetValueLoad(th) ==
    /\ At(th, "SetValue", "load")
    /\ stack' = SetTop(th, [Top(th) EXCEPT !.prev = value[Top(th).t],
                                           !.pc = "store"])
    /\ UNCHANGED <<triggerVars, queueVars, tasks, made, trace, shared>>

\* t.value = v
SetValueStore(th) ==
    /\ At(th, "SetValue", "store")
    /\ value' = [value EXCEPT ![Top(th).t] = Top(th).v]
    /\ stack' = SetTop(th, [Top(th) EXCEPT !.pc = "unlock"])
    /\ UNCHANGED <<Lock, readCallbacks, writeCallbacks, bindings, queueVars,
                   tasks, made, trace, shared>>

\* written defer t.Lock.Unlock(): the lock stays held through the callback and
\* binding loops
SetValueUnlockDeferred(th) ==
    /\ At(th, "SetValue", "unlock")
    /\ stack' = SetTop(th, Advance([Top(th) EXCEPT !.pc = "cb", !.i = 1]))
    /\ UNCHANGED <<triggerVars, queueVars, tasks, made, trace, shared>>

\* t.Lock.Unlock()
SetValueUnlock(th) ==
    /\ At(th, "SetValue", "unlock")
    /\ Lock' = [Lock EXCEPT ![Top(th).t] = NoThread]
    /\ stack' = SetTop(th, Advance([Top(th) EXCEPT !.pc = "cb", !.i = 1]))
    /\ UNCHANGED <<value, readCallbacks, writeCallbacks, bindings, queueVars,
                   tasks, made, trace, shared>>

\* the loop body written c(v, prev): the arguments exchanged
SetValueCallbackSwapped(th) ==
    /\ At(th, "SetValue", "cb")
    /\ LET f == Top(th)
           w == Invoke(writeCallbacks[f.t][f.i], <<f.v, f.prev>>, th, f.t, 0,
                       World)
       IN  /\ w.ok
           /\ trace' = w.trace
           /\ shared' = w.shared
           /\ tasks' = w.tasks
           /\ conBuf' = w.conBuf
           /\ stack' = SetTop(th, Advance([f EXCEPT !.i = @ + 1]))
    /\ UNCHANGED <<triggerVars, conLock, conMade, consumers, made>>

\* one iteration of: for _,c := range t.writeCallbacks { c(prev, v) }
SetValueCallback(th) ==
    /\ At(th, "SetValue", "cb")
    /\ LET f == Top(th)
           w == Invoke(writeCallbacks[f.t][f.i], <<f.prev, f.v>>, th, f.t, 0,
                       World)
       IN  /\ w.ok
           /\ trace' = w.trace
           /\ shared' = w.shared
           /\ tasks' = w.tasks
           /\ conBuf' = w.conBuf
           /\ stack' = SetTop(th, Advance([f EXCEPT !.i = @ + 1]))
    /\ UNCHANGED <<triggerVars, conLock, conMade, consumers, made>>

\* the binding loop handing the Binder v itself instead of b.F(v)
SetValueBindUnmapped(th) ==
    /\ At(th, "SetValue", "bind")
    /\ LET f == Top(th)
           b == bindings[f.t][f.i]
       IN  IF ~b.Concurrent
           THEN /\ stack' = Push(th, Frame("SetValue", b.Binder, f.v))
                /\ trace' = Log(th, Ev("call", th, b.Binder,
                                   <<"SetValue">>, <<f.v>>, Len(stack[th]) + 1))
           ELSE /\ stack' = SetTop(th, Advance([f EXCEPT !.i = @ + 1]))
                /\ trace' = trace
    /\ UNCHANGED <<triggerVars, queueVars, tasks, made, shared>>

\* val := b.F(v) moved inside if !b.Concurrent: a binding added with
\* concurrent = true is skipped without applying its mapping function
SetValueBindMapSync(th) ==
    /\ At(th, "SetValue", "bind")
    /\ LET f == Top(th)
           b == bindings[f.t][f.i]
           val == ApplyF(b.F, f.v)
           mapped == Append(trace[th], Ev("map", th, f.t, <<b.F>>, <<f.v>>,
                                          Len(stack[th])))
       IN  IF ~b.Concurrent
           THEN /\ stack' = Push(th, Frame("SetValue", b.Binder, val))
                /\ trace' = [trace EXCEPT ![th] =
                                Append(mapped, Ev("call", th, b.Binder,
                                   <<"SetValue">>, <<val>>, Len(stack[th]) + 1))]
           ELSE /\ stack' = SetTop(th, Advance([f EXCEPT !.i = @ + 1]))
                /\ trace' = trace
    /\ UNCHANGED <<triggerVars, queueVars, tasks, made, shared>>

\* the test of b.Concurrent left out: the Binder's SetValue is called for
\* every binding
SetValueBindAlways(th) ==
    /\ At(th, "SetValue", "bind")
    /\ LET f == Top(th)
           b == bindings[f.t][f.i]
           val == ApplyF(b.F, f.v)
           mapped == Append(trace[th], Ev("map", th, f.t, <<b.F>>, <<f.v>>,
                                          Len(stack[th])))
       IN  /\ stack' = Push(th, Frame("SetValue", b.Binder, val))
           /\ trace' = [trace EXCEPT ![th] =
                           Append(mapped, Ev("call", th, b.Binder,
                              <<"SetValue">>, <<val>>, Len(stack[th]) + 1))]
    /\ UNCHANGED <<triggerVars, queueVars, tasks, made, shared>>

\* one iteration of: for _,b := range t.bindings { val := b.F(v); if
\* !b.Concurrent { b.Binder.SetValue(val) } }.  The call of the Binder's
\* SetValue is a new frame on this thread's stack; "map" records b.F(v).
SetValueBind(th) ==
    /\ At(th, "SetValue", "bind")
    /\ LET f == Top(th)
           b == bindings[f.t][f.i]
           val == ApplyF(b.F, f.v)
           mapped == Append(trace[th], Ev("map", th, f.t, <<b.F>>, <<f.v>>,
                                          Len(stack[th])))
       IN  IF ~b.Concurrent
           THEN /\ stack' = Push(th, Frame("SetValue", b.Binder, val))
                /\ trace' = [trace EXCEPT ![th] =
                                Append(mapped, Ev("call", th, b.Binder,
                                   <<"SetValue">>, <<val>>, Len(stack[th]) + 1))]
           ELSE /\ stack' = SetTop(th, Advance([f EXCEPT !.i = @ + 1]))
                /\ trace' = [trace EXCEPT ![th] = mapped]
    /\ UNCHANGED <<triggerVars, queueVars, tasks, made, shared>>

\* SetValue returns
SetValueReturn(th) ==
    /\ At(th, "SetValue", "ret")
    /\ trace' = Log(th, Ev("ret", th, Top(th).t, <<"SetValue">>, <<Top(th).v>>,
                            Len(stack[th])))
    /\ stack' = Pop(th)
    /\ UNCHANGED <<triggerVars, queueVars, tasks, made, shared>>

----------------------------------------------------------------------------
(* Plain callbacks whose body calls back into the Trigger that invoked them.  *)
(* Such a body runs as frames of the calling thread: "reread" calls           *)
(* t.Value(), "rewrite" calls t.SetValue(1), "locker" takes and releases      *)
(* t.Lock around its own work, as the callbacks of the tests do.              *)

Bodies == {<<"reread">>, <<"rewrite">>, <<"locker">>}

\* the callback the loop of the innermost frame of th is about to call
Current(th) ==
    LET f == Top(th)
    IN  IF f.op = "Value" THEN readCallbacks[f.t][f.i] ELSE writeCallbacks[f.t][f.i]

\* the innermost frame of th is about to call a callback of Bodies
AtBody(th) ==
    /\ Running(th) /\ Top(th).op \in {"Value", "SetValue"} /\ Top(th).pc = "cb"
    /\ Current(th) \in Bodies

\* c(v) / c(prev, v) for such a callback: the body starts on the caller's stack
EnterBody(th) ==
    /\ AtBody(th)
    /\ LET f == Top(th)
           args == IF f.op = "Value" THEN <<f.v>> ELSE <<f.prev, f.v>>
           began == Append(trace[th], Ev("cb", th, f.t, Current(th), args, 0))
           d == Len(stack[th]) + 1
       IN  CASE Current(th) = <<"reread">> ->
                  /\ stack' = Push(th, Frame("Value", f.t, NIL))
                  /\ trace' = [trace EXCEPT ![th] =
                        Append(began, Ev("call", th, f.t, <<"Value">>, <<>>, d))]
             [] Current(th) = <<"rewrite">> ->
                  /\ stack' = Push(th, Frame("SetValue", f.t, 1))
                  /\ trace' = [trace EXCEPT ![th] =
                        Append(began, Ev("call", th, f.t, <<"SetValue">>, <<1>>, d))]
             [] OTHER ->
                  /\ stack' = Push(th, Frame("Locker", f.t, NIL))
                  /\ trace' = [trace EXCEPT ![th] = began]
    /\ UNCHANGED <<triggerVars, queueVars, tasks, made, shared>>

\* trigger.Lock.Lock() in the body of the callback
LockerLock(th) ==
    /\ At(th, "Locker", "lock")
    /\ Lock[Top(th).t] = NoThread
    /\ Lock' = [Lock EXCEPT ![Top(th).t] = th]
    /\ stack' = SetTop(th, [Top(th) EXCEPT !.pc = "unlock"])
    /\ UNCHANGED <<value, readCallbacks, writeCallbacks, bindings, queueVars,
                   tasks, made, trace, shared>>

\* trigger.Lock.Unlock() in the body of the callback, which then returns
LockerUnlock(th) ==
    /\ At(th, "Locker", "unlock")
    /\ Lock' = [Lock EXCEPT ![Top(th).t] = NoThread]
    /\ stack' = Pop(th)
    /\ UNCHANGED <<value, readCallbacks, writeCallbacks, bindings, queueVars,
                   tasks, made, trace, shared>>

----------------------------------------------------------------------------
(* ReadCallback.Concurrent / WriteCallback.Concurrent: the decoration.  The   *)
(* frame keeps the direction in t and the callback being decorated in cb.     *)

\* a consumer goroutine: waiting at the channel, or holding the entry it received
NoEntry == conState(<<>>, <<>>, 0)
IdleConsumer == [busy |-> FALSE, e |-> NoEntry]

\* a goroutine calls r.Concurrent() for direction d
CallConcurrent(th, d, r) ==
    /\ ~Running(th)
    /\ stack' = Push(th, [Frame("Concurrent", d, NIL) EXCEPT !.cb = r])
    /\ UNCHANGED <<triggerVars, queueVars, tasks, made, trace, shared>>

\* conReadLock.Lock() left out: the decoration goes on whoever holds the lock
ConcurrentLockFree(th) ==
    /\ At(th, "Concurrent", "lock")
    /\ stack' = SetTop(th, [Top(th) EXCEPT !.pc = "init"])
    /\ UNCHANGED <<triggerVars, queueVars, tasks, made, trace, shared>>

\* conReadLock.Lock()
ConcurrentLock(th) ==
    /\ At(th, "Concurrent", "lock")
    /\ conLock[Top(th).t] = NoThread
    /\ conLock' = [conLock EXCEPT ![Top(th).t] = th]
    /\ stack' = SetTop(th, [Top(th) EXCEPT !.pc = "init"])
    /\ UNCHANGED <<triggerVars, conMade, conBuf, consumers, tasks, made, trace, shared>>

\* the queue made anew by every decoration
NeedInitAlways(d) == TRUE

\* the test inverted: if conRead != nil
NeedInitInverted(d) == conMade[d]

\* if conRead == nil
NeedInit(d) == ~conMade[d]

\* the test of: if conRead == nil { ... }
ConcurrentInit(th) ==
    /\ At(th, "Concurrent", "init")
    /\ stack' = SetTop(th, [Top(th) EXCEPT
                              !.pc = IF NeedInit(Top(th).t) THEN "make" ELSE "unlock"])
    /\ UNCHANGED <<triggerVars, queueVars, tasks, made, trace, shared>>

\* the channel of the torn-down queue taken into use again, with what it holds
ConcurrentMakeReuse(th) ==
    /\ At(th, "Concurrent", "make")
    /\ conMade' = [conMade EXCEPT ![Top(th).t] = TRUE]
    /\ shared' = Append(shared, Ev("make", th, Top(th).t, <<>>, <<>>,
                                   CountIn(shared, "make") + 1))
    /\ stack' = SetTop(th, [Top(th) EXCEPT !.pc = "go"])
    /\ UNCHANGED <<triggerVars, conLock, conBuf, consumers, tasks, made, trace>>

\* conRead = make(chan conReadState, 100): a new, empty channel
ConcurrentMake(th) ==
    /\ At(th, "Concurrent", "make")
    /\ conMade' = [conMade EXCEPT ![Top(th).t] = TRUE]
    /\ conBuf' = [conBuf EXCEPT ![Top(th).t] = <<>>]
    /\ shared' = Append(shared, Ev("make", th, Top(th).t, <<>>, <<>>,
                                   CountIn(shared, "make") + 1))
    /\ stack' = SetTop(th, [Top(th) EXCEPT !.pc = "go"])
    /\ UNCHANGED <<triggerVars, conLock, consumers, tasks, made, trace>>

\* go runConcurrentRead()
ConcurrentGo(th) ==
    /\ At(th, "Concurrent", "go")
    /\ consumers' = [consumers EXCEPT ![Top(th).t] = Append(@, IdleConsumer)]
    /\ stack' = SetTop(th, [Top(th) EXCEPT !.pc = "unlock"])
    /\ UNCHANGED <<triggerVars, conLock, conMade, conBuf, tasks, made, trace, shared>>

\* conReadLock.Unlock()
ConcurrentUnlock(th) ==
    /\ At(th, "Concurrent", "unlock")
    /\ conLock' = [conLock EXCEPT ![Top(th).t] = NoThread]
    /\ stack' = SetTop(th, [Top(th) EXCEPT !.pc = "ret"])
    /\ UNCHANGED <<triggerVars, conMade, conBuf, consumers, tasks, made, trace, shared>>

\* return func(v interface{}) { conRead <- conReadState{v, r} }
ConcurrentReturn(th) ==
    /\ At(th, "Concurrent", "ret")
    /\ made' = made \cup {[d |-> Top(th).t, cb |-> <<"Concurrent">> \o Top(th).cb]}
    /\ stack' = Pop(th)
    /\ UNCHANGED <<triggerVars, queueVars, tasks, trace, shared>>

ConcurrentStep(th) ==
    \/ ConcurrentLock(th)
    \/ ConcurrentInit(th)
    \/ ConcurrentMake(th)
    \/ ConcurrentGo(th)
    \/ ConcurrentUnlock(th)
    \/ ConcurrentReturn(th)

----------------------------------------------------------------------------
(* runConcurrentRead / runConcurrentWrite: the consumer goroutine of a        *)
(* direction.  It receives one entry from the channel, calls the entry's      *)
(* callback with the entry's arguments, and only then receives the next.      *)

\* s := <-conRead
ConsumerRecv(d, k) ==
    /\ k \in DOMAIN consumers[d]
    /\ ~consumers[d][k].busy
    /\ conMade[d]
    /\ conBuf[d] # <<>>
    /\ consumers' = [consumers EXCEPT ![d][k] = [busy |-> TRUE, e |-> Head(conBuf[d])]]
    /\ conBuf' = [conBuf EXCEPT ![d] = Tail(@)]
    /\ shared' = Append(shared, Ev("deq", "con", d, Head(conBuf[d]).f,
                                   Head(conBuf[d]).args, Head(conBuf[d]).id))
    /\ UNCHANGED <<triggerVars, conLock, conMade, tasks, made, stack, trace>>

\* s.f(s.v): the call, up to its return
ConsumerCall(d, k) ==
    /\ k \in DOMAIN consumers[d]
    /\ consumers[d][k].busy
    /\ LET e == consumers[d][k].e
           w == Invoke(e.f, e.args, "con", d, e.id, World)
       IN  /\ w.ok
           /\ trace' = w.trace
           /\ shared' = w.shared
           /\ tasks' = w.tasks
           /\ conBuf' = w.conBuf
    /\ consumers' = [consumers EXCEPT ![d][k] = IdleConsumer]
    /\ UNCHANGED <<triggerVars, conLock, conMade, made, stack>>

\* killRead() / killWrite(), called by a goroutine that is not inside a call:
\* the consumer goroutine of direction d, waiting between two entries, stops,
\* and conRead / conWrite is nil again; the channel dropped this way keeps
\* whatever it held, out of reach of any later consumer
Kill(th, d, k) ==
    /\ ~Running(th)
    /\ k \in DOMAIN consumers[d]
    /\ ~consumers[d][k].busy
    /\ conMade[d]
    /\ conMade' = [conMade EXCEPT ![d] = FALSE]
    /\ consumers' = [consumers EXCEPT ![d] =
                        SubSeq(@, 1, k - 1) \o SubSeq(@, k + 1, Len(@))]
    /\ shared' = Append(shared, Ev("kill", th, d, <<>>, <<>>,
                                   CountIn(shared, "kill") + 1))
    /\ UNCHANGED <<triggerVars, conLock, conBuf, tasks, made, stack, trace>>

----------------------------------------------------------------------------
(* The goroutines started by Async *)

\* the goroutine of go r(v) runs r(v)
RunTask(task) ==
    /\ task \in tasks
    /\ LET w == Invoke(task.f, task.args, "go", "", task.id,
                       [World EXCEPT !.tasks = tasks \ {task}])
       IN  /\ w.ok
           /\ trace' = w.trace
           /\ shared' = w.shared
           /\ tasks' = w.tasks
           /\ conBuf' = w.conBuf
    /\ UNCHANGED <<triggerVars, conLock, conMade, consumers, made, stack>>

----------------------------------------------------------------------------
(* Registration.  The lists are plain slices: appending while another        *)
(* goroutine ranges over them is a data race, so the callers configure a     *)
(* Trigger while no goroutine is inside Value / SetValue.                    *)

Configuring == \A th \in Threads : ~Running(th)

\* the arguments of append exchanged: the new callback is put in front
AddReadCallbackFront(t, r) ==
    /\ Configuring
    /\ readCallbacks' = [readCallbacks EXCEPT ![t] = <<r>> \o @]
    /\ UNCHANGED <<value, Lock, writeCallbacks, bindings, queueVars, tasks,
                   made, stack, trace, shared>>

\* t.readCallbacks = append(t.readCallbacks, r)
AddReadCallback(t, r) ==
    /\ Configuring
    /\ readCallbacks' = [readCallbacks EXCEPT ![t] = Append(@, r)]
    /\ UNCHANGED <<value, Lock, writeCallbacks, bindings, queueVars, tasks,
                   made, stack, trace, shared>>

\* t.writeCallbacks = append(t.writeCallbacks, w)
AddWriteCallback(t, w) ==
    /\ Configuring
    /\ writeCallbacks' = [writeCallbacks EXCEPT ![t] = Append(@, w)]
    /\ UNCHANGED <<value, Lock, readCallbacks, bindings, queueVars, tasks,
                   made, stack, trace, shared>>

\* Binding{t, b, f, concurrent}
Binding(t, b, f, concurrent) ==
    [Initiator |-> t, Binder |-> b, F |-> f, Concurrent |-> concurrent]

\* t.bindings = append(t.bindings, Binding{t, b, f, concurrent})
AddBinder(t, b, f, concurrent) ==
    /\ Configuring
    /\ bindings' = [bindings EXCEPT ![t] = Append(@, Binding(t, b, f, concurrent))]
    /\ UNCHANGED <<value, Lock, readCallbacks, writeCallbacks, queueVars, tasks,
                   made, stack, trace, shared>>

----------------------------------------------------------------------------

Init ==
    /\ value = [t \in Triggers |-> NIL]
    /\ Lock = [t \in Triggers |-> NoThread]
    /\ readCallbacks = [t \in Triggers |-> <<>>]
    /\ writeCallbacks = [t \in Triggers |-> <<>>]
    /\ bindings = [t \in Triggers |-> <<>>]
    /\ conLock = [d \in Dirs |-> NoThread]
    /\ conMade = [d \in Dirs |-> FALSE]
    /\ conBuf = [d \in Dirs |-> <<>>]
    /\ consumers = [d \in Dirs |-> <<>>]
    /\ tasks = {}
    /\ made = {}
    /\ stack = [th \in Threads |-> <<>>]
    /\ trace = [th \in Threads |-> <<>>]
    /\ shared = <<>>

\* the statements of Value and SetValue up to the binding loop
ValueStep(th) ==
    \/ ValueLock(th)
    \/ ValueLoad(th)
    \/ ValueUnlock(th)
    \/ ValueCallback(th)
    \/ ValueReturn(th)

SetValueStep(th) ==
    \/ SetValueLock(th)
    \/ SetValueLoad(th)
    \/ SetValueStore(th)
    \/ SetValueUnlock(th)
    \/ SetValueCallback(th)
    \/ SetValueReturn(th)

----------------------------------------------------------------------------
(* One goroutine, one Trigger, plain and Conditional callbacks *)

Registered(t) == Len(readCallbacks[t]) + Len(writeCallbacks[t])

CbRead == {<<"r">>, <<"Conditional", "odd", "rc">>}
CbWrite == {<<"w">>, <<"Conditional", "grew", "wc">>}

NextCb ==
    \/ \E r \in CbRead :
          Registered("A") < MaxCallbacks /\ Calls = 0 /\ AddReadCallback("A", r)
    \/ \E w \in CbWrite :
          Registered("A") < MaxCallbacks /\ Calls = 0 /\ AddWriteCallback("A", w)
    \/ Calls < MaxCalls /\ CallValue("p1", "A")
    \/ \E v \in Vals : Calls < MaxCalls /\ CallSetValue("p1", "A", v)
    \/ ValueStep("p1")
    \/ SetValueStep("p1")

SpecCb == Init /\ [][NextCb]_vars

----------------------------------------------------------------------------
(* One goroutine, three Triggers bound A -> B, A -> C, B -> C *)

AllRegistered == SumOver(Triggers, [t \in Triggers |-> Registered(t)])
AllBindings == SumOver(Triggers, [t \in Triggers |-> Len(bindings[t])])

\* the bindings form no cycle: a Trigger is bound only to a later one
BindPairs == {<<"A", "B">>, <<"A", "C">>, <<"B", "C">>}

NextBind ==
    \/ \E t \in {"A", "B"} :
          AllRegistered < BindCallbacks /\ Calls = 0 /\ AddWriteCallback(t, <<"w">>)
    \/ \E p \in BindPairs, c \in BOOLEAN :
          AllBindings < MaxBindings /\ Calls = 0 /\ AddBinder(p[1], p[2], "inc", c)
    \/ \E v \in Vals : Calls < BindCalls /\ CallSetValue("p1", "A", v)
    \/ SetValueStep("p1")
    \/ SetValueBind("p1")

SpecBind == Init /\ [][NextBind]_vars

----------------------------------------------------------------------------
(* Two producer goroutines, Triggers A and B with one Concurrent callback     *)
(* each, both read callbacks or both write callbacks, sharing the queue of    *)
(* that direction and its consumer.  p1 calls on A and p2 on B; the n-th      *)
(* SetValue call of a run passes n to A and -n to B.                          *)

\* the function each Trigger's callback wraps
QueueFn == [A |-> <<"fa">>, B |-> <<"fb">>]
\* the Trigger each producer calls
QueueTrigger == [p1 |-> "A", p2 |-> "B"]
\* the value the next SetValue call passes to t
QueueNext(t) == IF t = "A" THEN Calls + 1 ELSE -(Calls + 1)

\* the callback value r.Concurrent() returns for direction d
Con(d, r) == [d |-> d, cb |-> <<"Concurrent">> \o r]

\* the run decorates callbacks of direction d only
OnlyDir(d) ==
    /\ \A x \in made : x.d = d
    /\ \A th \in Threads : Running(th) => Top(th).t = d

\* both Triggers carry their callback of direction d: the producers start
QueueReady(d) ==
    \A t \in {"A", "B"} :
        Len(IF d = "read" THEN readCallbacks[t] ELSE writeCallbacks[t]) = 1

\* the consumer goroutines are scheduled: one that can receive or call does
ConsumerFair ==
    /\ WF_vars(\E d \in Dirs : \E k \in DOMAIN consumers[d] : ConsumerRecv(d, k))
    /\ WF_vars(\E d \in Dirs : \E k \in DOMAIN consumers[d] : ConsumerCall(d, k))

NextQueue ==
    \/ \E th \in Threads, t \in {"A", "B"}, d \in Dirs :
          Calls = 0 /\ OnlyDir(d) /\ CallConcurrent(th, d, QueueFn[t])
    \/ \E th \in Threads : ConcurrentStep(th)
    \/ \E t \in {"A", "B"} :
          /\ readCallbacks[t] = <<>>
          /\ Con("read", QueueFn[t]) \in made
          /\ Calls = 0 /\ AddReadCallback(t, Con("read", QueueFn[t]).cb)
    \/ \E t \in {"A", "B"} :
          /\ writeCallbacks[t] = <<>>
          /\ Con("write", QueueFn[t]) \in made
          /\ Calls = 0 /\ AddWriteCallback(t, Con("write", QueueFn[t]).cb)
    \/ \E th \in Threads :
          /\ QueueReady("read")
          /\ Calls < QueueCalls
          /\ CallValue(th, QueueTrigger[th])
    \/ \E th \in Threads :
          /\ QueueReady("write")
          /\ Calls < QueueCalls
          /\ CallSetValue(th, QueueTrigger[th], QueueNext(QueueTrigger[th]))
    \/ \E th \in Threads : ValueStep(th)
    \/ \E th \in Threads : SetValueStep(th)
    \/ \E d \in Dirs : \E k \in DOMAIN consumers[d] : ConsumerRecv(d, k)
    \/ \E d \in Dirs : \E k \in DOMAIN consumers[d] : ConsumerCall(d, k)

SpecQueue == Init /\ [][NextQueue]_vars

----------------------------------------------------------------------------
(* One producer goroutine and one Trigger that carries a Concurrent read      *)
(* callback and a Concurrent write callback, decorated in this order; the     *)
(* producer calls Value and SetValue in turn; both consumers are scheduled.   *)

DrainFn == [read |-> <<"ga">>, write |-> <<"fa">>]

DrainReady == Len(readCallbacks["A"]) = 1 /\ Len(writeCallbacks["A"]) = 1

NextDrain ==
    \/ \E d \in Dirs :
          /\ Calls = 0
          /\ d = "write" => Con("read", DrainFn["read"]) \in made
          /\ CallConcurrent("p1", d, DrainFn[d])
    \/ ConcurrentStep("p1")
    \/ /\ readCallbacks["A"] = <<>>
       /\ Con("read", DrainFn["read"]) \in made
       /\ Calls = 0 /\ AddReadCallback("A", Con("read", DrainFn["read"]).cb)
    \/ /\ writeCallbacks["A"] = <<>>
       /\ Con("write", DrainFn["write"]) \in made
       /\ Calls = 0 /\ AddWriteCallback("A", Con("write", DrainFn["write"]).cb)
    \/ DrainReady /\ Calls < DrainCalls /\ Calls % 2 = 0 /\ CallValue("p1", "A")
    \/ /\ DrainReady /\ Calls < DrainCalls /\ Calls % 2 = 1
       /\ CallSetValue("p1", "A", Calls + 1)
    \/ ValueStep("p1")
    \/ SetValueStep("p1")
    \/ \E d \in Dirs : \E k \in DOMAIN consumers[d] : ConsumerRecv(d, k)
    \/ \E d \in Dirs : \E k \in DOMAIN consumers[d] : ConsumerCall(d, k)

SpecDrain == Init /\ [][NextDrain]_vars /\ ConsumerFair

----------------------------------------------------------------------------
(* One goroutine calling Value / SetValue on a Trigger that carries an Async  *)
(* read callback and an Async write callback; the goroutines they start are   *)
(* scheduled.                                                                 *)

AsyncFn == [read |-> <<"Async", "ra">>, write |-> <<"Async", "wa">>]

AsyncReady == Len(readCallbacks["A"]) = 1 /\ Len(writeCallbacks["A"]) = 1

\* the Go scheduler runs every goroutine that can run
TaskFair ==
    \A n \in 1..AsyncCalls :
        WF_vars(\E task \in tasks : task.id = n /\ RunTask(task))

NextAsync ==
    \/ readCallbacks["A"] = <<>> /\ Calls = 0 /\ AddReadCallback("A", AsyncFn["read"])
    \/ writeCallbacks["A"] = <<>> /\ Calls = 0 /\ AddWriteCallback("A", AsyncFn["write"])
    \/ AsyncReady /\ Calls < AsyncCalls /\ CallValue("p1", "A")
    \/ AsyncReady /\ Calls < AsyncCalls /\ CallSetValue("p1", "A", Calls + 1)
    \/ ValueStep("p1")
    \/ SetValueStep("p1")
    \/ \E task \in tasks : RunTask(task)

SpecAsync == Init /\ [][NextAsync]_vars /\ TaskFair

----------------------------------------------------------------------------
(* One goroutine, as in a test that ends with killRead(): it decorates the    *)
(* callback ga (or fa), registers it on Trigger A, calls Value (SetValue),    *)
(* tears the queue down when no call is running, and may decorate again.      *)
(* With a single goroutine nobody re-creates the queue while a send waits.    *)

\* the positions in the history at which a queue of direction d was created
Makes(d) == {i \in 1..Len(shared) : shared[i].e = "make" /\ shared[i].t = d}

KillFn == [read |-> <<"ga">>, write |-> <<"fa">>]

\* the number of teardowns so far
Kills == CountIn(shared, "kill")

\* the Trigger carries the decorated callback of direction d
KillReady(d) ==
    (IF d = "read" THEN readCallbacks["A"] ELSE writeCallbacks["A"])
        = <<Con(d, KillFn[d]).cb>>

NextKill ==
    \/ \E d \in Dirs :
          /\ OnlyDir(d)
          /\ ~conMade[d]
          /\ Cardinality(Makes(d)) <= MaxKills
          /\ CallConcurrent("p1", d, KillFn[d])
    \/ ConcurrentStep("p1")
    \/ /\ readCallbacks["A"] = <<>>
       /\ Con("read", KillFn["read"]) \in made
       /\ Calls = 0 /\ AddReadCallback("A", Con("read", KillFn["read"]).cb)
    \/ /\ writeCallbacks["A"] = <<>>
       /\ Con("write", KillFn["write"]) \in made
       /\ Calls = 0 /\ AddWriteCallback("A", Con("write", KillFn["write"]).cb)
    \/ KillReady("read") /\ Calls < KillCalls /\ CallValue("p1", "A")
    \/ KillReady("write") /\ Calls < KillCalls /\ CallSetValue("p1", "A", Calls + 1)
    \/ ValueStep("p1")
    \/ SetValueStep("p1")
    \/ \E d \in Dirs : \E k \in DOMAIN consumers[d] :
          Kills < MaxKills /\ Kill("p1", d, k)
    \/ \E d \in Dirs : \E k \in DOMAIN consumers[d] : ConsumerRecv(d, k)
    \/ \E d \in Dirs : \E k \in DOMAIN consumers[d] : ConsumerCall(d, k)

SpecKill == Init /\ [][NextKill]_vars /\ ConsumerFair

----------------------------------------------------------------------------
(* One producer goroutine and a slow consumer: the wrapped callback of the    *)
(* tests hands its result to the test goroutine over an unbuffered channel,   *)
(* so the consumer is held up while the producer goes on.  The schedules      *)
(* taken are those in which the consumer receives only once the queue is      *)
(* within FullSlack entries of its capacity.                                  *)

FullReady(d) == KillReady(d)

NextFull ==
    \/ \E d \in Dirs :
          /\ OnlyDir(d)
          /\ made = {}
          /\ CallConcurrent("p1", d, KillFn[d])
    \/ ConcurrentStep("p1")
    \/ /\ readCallbacks["A"] = <<>>
       /\ Con("read", KillFn["read"]) \in made
       /\ Calls = 0 /\ AddReadCallback("A", Con("read", KillFn["read"]).cb)
    \/ /\ writeCallbacks["A"] = <<>>
       /\ Con("write", KillFn["write"]) \in made
       /\ Calls = 0 /\ AddWriteCallback("A", Con("write", KillFn["write"]).cb)
    \/ FullReady("read") /\ Calls < FullCalls /\ CallValue("p1", "A")
    \/ FullReady("write") /\ Calls < FullCalls /\ CallSetValue("p1", "A", Calls + 1)
    \/ ValueStep("p1")
    \/ SetValueStep("p1")
    \/ \E d \in Dirs : \E k \in DOMAIN consumers[d] :
          Len(conBuf[d]) >= QueueCap - FullSlack /\ ConsumerRecv(d, k)
    \/ \E d \in Dirs : \E k \in DOMAIN consumers[d] : ConsumerCall(d, k)

SpecFull == Init /\ [][NextFull]_vars

----------------------------------------------------------------------------
(* Two goroutines on Trigger A, p1 calling SetValue and p2 calling Value; the *)
(* callbacks of A call back into A or take A's lock, and A may be bound to B. *)
(* A body that calls Value is not combined with one that calls SetValue: the  *)
(* two would call each other without end.                                     *)

LockRead == {<<"r">>, <<"rewrite">>, <<"locker">>}
LockWrite == {<<"w">>, <<"reread">>, <<"locker">>}

\* one step of thread th inside a call
LockStep(th) ==
    \/ ValueLock(th)
    \/ ValueLoad(th)
    \/ ValueUnlock(th)
    \/ ~AtBody(th) /\ ValueCallback(th)
    \/ ValueReturn(th)
    \/ SetValueLock(th)
    \/ SetValueLoad(th)
    \/ SetValueStore(th)
    \/ SetValueUnlock(th)
    \/ ~AtBody(th) /\ SetValueCallback(th)
    \/ SetValueBind(th)
    \/ SetValueReturn(th)
    \/ EnterBody(th)
    \/ LockerLock(th)
    \/ LockerUnlock(th)

NextLock ==
    \/ \E r \in LockRead :
          /\ Registered("A") < LockCallbacks
          /\ r = <<"rewrite">> => Occ(writeCallbacks["A"], <<"reread">>) = 0
          /\ Calls = 0 /\ AddReadCallback("A", r)
    \/ \E w \in LockWrite :
          /\ Registered("A") < LockCallbacks
          /\ w = <<"reread">> => Occ(readCallbacks["A"], <<"rewrite">>) = 0
          /\ Calls = 0 /\ AddWriteCallback("A", w)
    \/ bindings["A"] = <<>> /\ Calls = 0 /\ AddBinder("A", "B", "inc", FALSE)
    \/ Calls < LockCalls /\ CallValue("p2", "A")
    \/ Calls < LockCalls /\ CallSetValue("p1", "A", 2)
    \/ \E th \in Threads : LockStep(th)

SpecLock == Init /\ [][NextLock]_vars

----------------------------------------------------------------------------
(* One goroutine: SetValue(start) on the fresh Trigger A, then a plain read   *)
(* callback and a plain write callback are registered (and A may be bound to  *)
(* B), then the loop trigger.SetValue(trigger.Value() + 1).                   *)

\* the last event of the goroutine's history is the return of a call of op
Returned(op) ==
    /\ trace["p1"] # <<>>
    /\ LET x == trace["p1"][Len(trace["p1"])]
       IN  x.e = "ret" /\ x.cb = <<op>> /\ x.id = 1

\* the value the last call returned
LastValue == trace["p1"][Len(trace["p1"])].args[1]

LoopReady ==
    readCallbacks["A"] = << <<"r">> >> /\ writeCallbacks["A"] = << <<"w">> >>

NextLoop ==
    \/ \E v \in Vals : Calls = 0 /\ CallSetValue("p1", "A", v)
    \/ Calls = 1 /\ readCallbacks["A"] = <<>> /\ AddReadCallback("A", <<"r">>)
    \/ Calls = 1 /\ writeCallbacks["A"] = <<>> /\ AddWriteCallback("A", <<"w">>)
    \/ \E c \in BOOLEAN :
          Calls = 1 /\ bindings["A"] = <<>> /\ AddBinder("A", "B", "inc", c)
    \/ /\ LoopReady
       /\ Calls < 1 + 2 * LoopIters
       /\ Returned("SetValue")
       /\ CallValue("p1", "A")
    \/ /\ LoopReady
       /\ Returned("Value")
       /\ CallSetValue("p1", "A", LastValue + 1)
    \/ ValueStep("p1")
    \/ SetValueStep("p1")
    \/ SetValueBind("p1")

SpecLoop == Init /\ [][NextLoop]_vars

----------------------------------------------------------------------------
(* Two goroutines calling SetValue on the one Trigger A, which carries a      *)
(* plain write callback; p1 writes 1, 3, 5, ... and p2 writes 2, 4, 6, ...    *)

\* the value the next SetValue call of th passes
RaceNext(th) == 2 * CallsOf(th) + (IF th = "p1" THEN 1 ELSE 2)

NextRace ==
    \/ writeCallbacks["A"] = <<>> /\ Calls = 0 /\ AddWriteCallback("A", <<"w">>)
    \/ \E th \in Threads :
          /\ writeCallbacks["A"] # <<>>
          /\ CallsOf(th) < RaceCalls
          /\ CallSetValue(th, "A", RaceNext(th))
    \/ \E th \in Threads : SetValueStep(th)

SpecRace == Init /\ [][NextRace]_vars

----------------------------------------------------------------------------
(* Reading the history *)

\* the history of the one goroutine that makes the calls in SpecCb and SpecBind
H == trace["p1"]

IsPrefix(a, b) == Len(a) <= Len(b) /\ SubSeq(b, 1, Len(a)) = a

\* the arguments of the executions of the plain function f for Trigger t, in order
CbArgs(t, f) ==
    LET s == SelectSeq(H, LAMBDA x : x.e = "cb" /\ x.cb = f /\ x.t = t)
    IN  [i \in 1..Len(s) |-> s[i].args]

\* the values of the SetValue calls on t among the first k events, in order
SetVals(t, k) ==
    LET s == SelectSeq(SubSeq(H, 1, k),
                       LAMBDA x : x.e = "call" /\ x.cb = <<"SetValue">> /\ x.t = t)
    IN  [i \in 1..Len(s) |-> s[i].args[1]]

\* the values returned by the Value calls on t that have returned, in order
ValueRets(t) ==
    LET s == SelectSeq(H,
                       LAMBDA x : x.e = "ret" /\ x.cb = <<"Value">> /\ x.t = t)
    IN  [i \in 1..Len(s) |-> s[i].args[1]]

\* (nil, v1), (v1, v2), ..., (v_{n-1}, vn)
Chain(vs) == [j \in 1..Len(vs) |-> <<IF j = 1 THEN NIL ELSE vs[j - 1], vs[j]>>]

\* every element of s, n times in a row
Times(s, n) == [k \in 1..(n * Len(s)) |-> s[((k - 1) \div n) + 1]]

\* the elements of s that satisfy the predicate p, in order
RECURSIVE Keep(_, _)
Keep(s, p) ==
    IF s = <<>> THEN <<>>
    ELSE (IF PredHolds(p, Head(s)) THEN <<Head(s)>> ELSE <<>>) \o Keep(Tail(s), p)

\* the index of the call event that the return event at k answers
CallOf(k) ==
    CHOOSE c \in 1..k :
        /\ H[c].e = "call" /\ H[c].who = H[k].who
        /\ H[c].id = H[k].id
        /\ \A m \in (c + 1)..(k - 1) :
              ~(H[m].e = "call" /\ H[m].who = H[k].who
                /\ H[m].id = H[k].id)

Idle == \A th \in Threads : ~Running(th)

\* the numbers of the set S in ascending order
RECURSIVE Ascending(_)
Ascending(S) ==
    IF S = {} THEN <<>>
    ELSE LET m == CHOOSE x \in S : \A y \in S : x <= y
         IN  <<m>> \o Ascending(S \ {m})

----------------------------------------------------------------------------
(* Claims checked under SpecCb *)

\* C5: sequential calls SetValue(v1), ..., SetValue(vn) on a fresh Trigger hand a
\* registered plain write callback exactly (nil, v1), (v1, v2), ...,
\* (v_{n-1}, vn), in that order (once per registration of the callback): what
\* it has received so far is a prefix of that chain, and all of it once the
\* calls have returned.
C5_WriteChain ==
    \A t \in Triggers :
        LET want == Times(Chain(SetVals(t, Len(H))),
                          Occ(writeCallbacks[t], <<"w">>))
        IN  /\ IsPrefix(CbArgs(t, <<"w">>), want)
            /\ Idle => CbArgs(t, <<"w">>) = want

\* two SetValue calls with different values have returned and the callback was
\* handed the second pair (v1, v2)
C5_Witness ==
    /\ Idle
    /\ Occ(writeCallbacks["A"], <<"w">>) = 1
    /\ Len(CbArgs("A", <<"w">>)) = 3
    /\ CbArgs("A", <<"w">>)[1] = <<NIL, 2>>
    /\ CbArgs("A", <<"w">>)[2] = <<2, 1>>

\* C6: every Value() call returns the value of the last SetValue before it, nil
\* when the Trigger was never set, and every callback execution it causes is
\* handed that same value; each registered plain read callback is executed.
C6_ValueReads ==
    \A k \in 1..Len(H) :
        (H[k].e = "ret" /\ H[k].cb = <<"Value">>) =>
            LET t == H[k].t
                c == CallOf(k)
                sets == SetVals(t, c)
                last == IF sets = <<>> THEN NIL ELSE sets[Len(sets)]
                during == {m \in c..k : H[m].e = "cb" /\ H[m].t = t}
            IN  /\ H[k].args = <<last>>
                /\ \A m \in during : H[m].args = <<last>>
                /\ Cardinality({m \in during : H[m].cb = <<"r">>})
                      = Occ(readCallbacks[t], <<"r">>)

\* a Value() on the unset Trigger returned nil, a later one returned the value
\* just set, and the plain read callback ran in both
C6_Witness ==
    /\ Occ(readCallbacks["A"], <<"r">>) >= 1
    /\ ValueRets("A") = <<NIL, 2>>
    /\ CbArgs("A", <<"r">>)[1] = <<NIL>>
    /\ CbArgs("A", <<"r">>)[Len(CbArgs("A", <<"r">>))] = <<2>>

\* the number of events e of operation op on t among the first k events
NumOps(e, op, t, k) ==
    Cardinality({m \in 1..k : H[m].e = e /\ H[m].cb = <<op>>
                                /\ H[m].t = t})

\* the number of executions of the plain function f for t among the first k events
NumCb(t, f, k) ==
    Cardinality({m \in 1..k : H[m].e = "cb" /\ H[m].cb = f
                                /\ H[m].t = t})

\* C7: a plain callback has been executed once (per registration) for every
\* Value() / SetValue call at the moment that call returns, and never more often
\* than calls were made: after N calls it has fired exactly N times.
C7_PlainSynchronous ==
    \A t \in Triggers :
        LET nr == Occ(readCallbacks[t], <<"r">>)
            nw == Occ(writeCallbacks[t], <<"w">>)
        IN  /\ \A k \in 1..Len(H) :
                  H[k].e = "ret" /\ H[k].t = t =>
                    /\ NumCb(t, <<"r">>, k) = nr * NumOps("ret", "Value", t, k)
                    /\ NumCb(t, <<"w">>, k) = nw * NumOps("ret", "SetValue", t, k)
            /\ NumCb(t, <<"r">>, Len(H))
                  <= nr * NumOps("call", "Value", t, Len(H))
            /\ NumCb(t, <<"w">>, Len(H))
                  <= nw * NumOps("call", "SetValue", t, Len(H))

\* both plain callbacks are registered once; two Value() calls and one SetValue
\* have returned
C7_Witness ==
    /\ Idle
    /\ Occ(readCallbacks["A"], <<"r">>) = 1
    /\ Occ(writeCallbacks["A"], <<"w">>) = 1
    /\ NumOps("ret", "Value", "A", Len(H)) = 2
    /\ NumOps("ret", "SetValue", "A", Len(H)) = 1
    /\ NumCb("A", <<"r">>, Len(H)) = 2
    /\ NumCb("A", <<"w">>, Len(H)) = 1

\* C8: the function wrapped by Conditional is executed for exactly those
\* invocations whose arguments satisfy the predicate, with those arguments: of
\* the M invocations made by the calls that have returned, the K satisfying
\* ones reach it (once per registration) and the others leave no execution.
C8_Conditional ==
    \A t \in Triggers :
        LET reads  == [i \in 1..Len(ValueRets(t)) |-> <<ValueRets(t)[i]>>]
            writes == Chain(SetVals(t, Len(H)))
            nr == Occ(readCallbacks[t], <<"Conditional", "odd", "rc">>)
            nw == Occ(writeCallbacks[t], <<"Conditional", "grew", "wc">>)
        IN  Idle =>
              /\ CbArgs(t, <<"rc">>) = Times(Keep(reads, "odd"), nr)
              /\ CbArgs(t, <<"wc">>) = Times(Keep(writes, "grew"), nw)

\* three SetValue calls, of which the first two satisfied the predicate and the
\* third did not
C8_Witness ==
    /\ Idle
    /\ Occ(writeCallbacks["A"], <<"Conditional", "grew", "wc">>) = 1
    /\ SetVals("A", Len(H)) = <<1, 2, 1>>
    /\ CbArgs("A", <<"wc">>) = << <<NIL, 1>>, <<1, 2>> >>

\* the functions that run when the callbacks of list are called with args, in
\* the order of the list: a plain callback always, the function wrapped by a
\* Conditional when its predicate holds
RECURSIVE Fired(_, _)
Fired(list, args) ==
    IF list = <<>> THEN <<>>
    ELSE LET c == Head(list)
         IN  (IF Head(c) = "Conditional"
              THEN (IF PredHolds(c[2], args) THEN <<SubSeq(c, 3, Len(c))>> ELSE <<>>)
              ELSE <<c>>)
             \o Fired(Tail(list), args)

\* the functions executed for Trigger t between the events c and k, in order
FiredBetween(t, c, k) ==
    LET at == Ascending({m \in c..k : H[m].e = "cb" /\ H[m].t = t})
    IN  [j \in 1..Len(at) |-> H[at[j]].cb]

\* every call that has returned executed the registered callbacks one after
\* the other in the order of the list, each entry of the list once: a callback
\* that is k times in the list ran k times
C17_InListOrder ==
    \A k \in 1..Len(H) :
        H[k].e = "ret" =>
            LET t == H[k].t
                c == CallOf(k)
                sets == SetVals(t, c - 1)
                prev == IF sets = <<>> THEN NIL ELSE sets[Len(sets)]
            IN  IF H[k].cb = <<"Value">>
                THEN FiredBetween(t, c, k) = Fired(readCallbacks[t], H[k].args)
                ELSE FiredBetween(t, c, k)
                        = Fired(writeCallbacks[t], <<prev>> \o H[k].args)

\* a step changes a callback list only by putting one callback at its end
C17_AppendOnly ==
    \A t \in Triggers :
        /\ readCallbacks'[t] # readCallbacks[t] =>
              \E r \in CbRead : readCallbacks'[t] = Append(readCallbacks[t], r)
        /\ writeCallbacks'[t] # writeCallbacks[t] =>
              \E w \in CbWrite : writeCallbacks'[t] = Append(writeCallbacks[t], w)

\* C17: each Value() call invokes all registered read callbacks and each
\* SetValue call all registered write callbacks, in the order of registration;
\* registration only appends, never removes or merges, so a callback registered
\* k times is invoked k times per call.
C17_RegistrationOrder ==
    /\ []C17_InListOrder
    /\ [][C17_AppendOnly]_vars

\* r was registered, then the Conditional rc, then r again; one Value() call
\* on the odd value 1 ran r, rc, r in this order
C17_Witness ==
    /\ Idle
    /\ readCallbacks["A"] = << <<"r">>, <<"Conditional", "odd", "rc">>, <<"r">> >>
    /\ ValueRets("A") = <<1>>
    /\ \E k \in 1..Len(H) :
          /\ H[k].e = "ret" /\ H[k].cb = <<"Value">>
          /\ FiredBetween("A", CallOf(k), k) = << <<"r">>, <<"rc">>, <<"r">> >>

----------------------------------------------------------------------------
(* Claims checked under SpecBind *)

\* the bindings of t that were added with concurrent = false, in order
Synchronous(t) == SelectSeq(bindings[t], LAMBDA b : ~b.Concurrent)

\* C10: when source.SetValue(v) returns, the calling thread has called
\* target.SetValue(f(v)) for every binding added with concurrent = false, in
\* the order of the bindings; each of these calls was made after all write
\* callbacks of the source had run for this call, and returned (with the calls
\* it made to its own targets) before the next one was made.
C10_BindingSynchronous ==
    \A k \in 1..Len(H) :
        (H[k].e = "ret" /\ H[k].cb = <<"SetValue">>) =>
            LET t == H[k].t
                c == CallOf(k)
                v == H[c].args[1]
                inner(x) == x.who = H[k].who /\ x.id = H[k].id + 1
                calls == Ascending({m \in c..k : H[m].e = "call" /\ inner(H[m])})
                rets  == Ascending({m \in c..k : H[m].e = "ret" /\ inner(H[m])})
                cbs   == Ascending({m \in c..k : H[m].e = "cb" /\ H[m].t = t})
                sync  == Synchronous(t)
            IN  /\ Len(calls) = Len(sync)
                /\ Len(rets) = Len(sync)
                /\ Len(cbs) = Len(writeCallbacks[t])
                /\ \A j \in 1..Len(sync) :
                      /\ H[calls[j]].t = sync[j].Binder
                      /\ H[calls[j]].cb = <<"SetValue">>
                      /\ H[calls[j]].args = <<ApplyF(sync[j].F, v)>>
                      /\ calls[j] < rets[j]
                      /\ j < Len(sync) => rets[j] < calls[j + 1]
                      /\ \A m \in 1..Len(cbs) : cbs[m] < calls[j]

\* A.SetValue(1) has returned with A bound to B and B to C, both with
\* concurrent = false, and a write callback on A and on B: the chain is updated
C10_Witness ==
    /\ Idle
    /\ Calls = 1
    /\ Len(writeCallbacks["A"]) = 1 /\ Len(writeCallbacks["B"]) = 1
    /\ Len(Synchronous("A")) = 1 /\ Synchronous("A")[1].Binder = "B"
    /\ Len(Synchronous("B")) = 1
    /\ value = [A |-> 1, B |-> 2, C |-> 3]

\* the positions of the "map" events of the SetValue activation that was called
\* at c and returned at k, in order
MapsOf(c, k) ==
    Ascending({m \in c..k : H[m].e = "map" /\ H[m].who = H[k].who
                              /\ H[m].t = H[k].t /\ H[m].id = H[k].id})

\* C11: one SetValue(v) call on a source applies the mapping function of each
\* of the source's bindings exactly once, to v, in the order of the bindings,
\* however many bindings the source has and whether or not they were added
\* with concurrent = true: a source with n bindings makes n applications.
C11_MapOncePerBinding ==
    \A k \in 1..Len(H) :
        (H[k].e = "ret" /\ H[k].cb = <<"SetValue">>) =>
            LET t == H[k].t
                c == CallOf(k)
                v == H[c].args[1]
                maps == MapsOf(c, k)
            IN  /\ Len(maps) = Len(bindings[t])
                /\ \A j \in 1..Len(maps) :
                      /\ H[maps[j]].cb = <<bindings[t][j].F>>
                      /\ H[maps[j]].args = <<v>>

\* A.SetValue(v) has returned with two bindings sharing the source A, one of
\* them added with concurrent = true: two applications, one per binding
C11_Witness ==
    /\ Idle
    /\ Calls = 1
    /\ Len(bindings["A"]) = 2
    /\ Len(Synchronous("A")) = 1
    /\ Cardinality({m \in 1..Len(H) : H[m].e = "map" /\ H[m].t = "A"}) = 2

\* the bindings, of any source, whose target is u
BindingsTo(u) ==
    UNION {{bindings[t][j] : j \in {i \in DOMAIN bindings[t] :
                                       bindings[t][i].Binder = u}} : t \in Triggers}

----------------------------------------------------------------------------
(* Claims checked under SpecQueue *)

\* the entries enqueued for direction d, the entries the consumer of d received,
\* and the executions of wrapped callbacks by the consumer of d, in order
Enq(d) == SelectSeq(shared, LAMBDA x : x.e = "enq" /\ DirOf(x.args) = d)
Deq(d) == SelectSeq(shared, LAMBDA x : x.e = "deq" /\ x.t = d)
Exec(d) == SelectSeq(shared, LAMBDA x : x.e = "cb" /\ x.who = "con" /\ x.t = d)

Ids(s) == [i \in 1..Len(s) |-> s[i].id]
Range(s) == {s[i] : i \in 1..Len(s)}

\* the entries a consumer of d holds
Held(d) == {consumers[d][k].e : k \in {j \in DOMAIN consumers[d] : consumers[d][j].busy}}

\* no producer is inside a call, nothing waits in a queue, no consumer holds an entry
Quiet ==
    /\ Idle
    /\ \A d \in Dirs : conBuf[d] = <<>> /\ Held(d) = {}

\* C1: per direction the consumer executes the entries in the order in which
\* they were enqueued, whichever thread and Trigger enqueued them: the sequence
\* of executed entries is a prefix of the sequence of enqueued entries, and so
\* is the sequence of received entries.
C1_FifoOrder ==
    \A d \in Dirs :
        /\ IsPrefix(Ids(Exec(d)), Ids(Enq(d)))
        /\ IsPrefix(Ids(Deq(d)), Ids(Enq(d)))

\* p2 enqueued a read entry of Trigger B, then p1 one of Trigger A, and both
\* were executed
C1_Witness ==
    /\ Len(Exec("read")) >= 2
    /\ Enq("read")[1].who = "p2" /\ Enq("read")[1].t = "B"
    /\ Enq("read")[2].who = "p1" /\ Enq("read")[2].t = "A"
    /\ Exec("read")[1].cb = <<"fb">>
    /\ Exec("read")[2].cb = <<"fa">>

\* C2: per direction at most one entry is being executed: at most one consumer
\* holds an entry it has received and whose callback has not returned.
C2_OneAtATime ==
    \A d \in Dirs :
        Cardinality({k \in DOMAIN consumers[d] : consumers[d][k].busy}) <= 1

\* the consumer is executing an entry of Trigger A, enqueued by p1, while an
\* entry of Trigger B, enqueued by p2, waits in the queue
C2_Witness ==
    /\ \E k \in DOMAIN consumers["write"] :
          /\ consumers["write"][k].busy
          /\ consumers["write"][k].e.f = <<"fa">>
    /\ conBuf["write"] # <<>>
    /\ Head(conBuf["write"]).f = <<"fb">>

\* the number of calls (e = "call") or returns (e = "ret") of operation op by th
NumCalls(th, e, op) ==
    Cardinality({i \in 1..Len(trace[th]) :
                    trace[th][i].e = e /\ trace[th][i].cb = <<op>>})

\* the operation that invokes the callbacks of direction d
OpOf(d) == IF d = "read" THEN "Value" ELSE "SetValue"

\* the entry of the history that was enqueued under number n
EnqOf(n) == CHOOSE x \in Range(shared) : x.e = "enq" /\ x.id = n

\* C4: every execution by the consumer runs the callback of the Trigger whose
\* Value / SetValue enqueued the entry, with the arguments of that call (A's
\* write callback only ever sees the positive values written to A, B's the
\* negative ones written to B); and once everything enqueued is executed, each
\* callback has run once for every call on its Trigger.
C4_NoCrossing ==
    \A d \in Dirs :
        /\ \A x \in Range(Exec(d)) :
              /\ \E y \in Range(Enq(d)) : y.id = x.id
              /\ x.cb = QueueFn[EnqOf(x.id).t]
              /\ x.args = EnqOf(x.id).args
              /\ d = "write" /\ x.cb = <<"fa">> => x.args[1] >= 0 /\ x.args[2] > 0
              /\ d = "write" /\ x.cb = <<"fb">> => x.args[1] <= 0 /\ x.args[2] < 0
        /\ Quiet =>
              \A th \in Threads :
                  Cardinality({i \in 1..Len(Exec(d)) :
                                  Exec(d)[i].cb = QueueFn[QueueTrigger[th]]})
                    = NumCalls(th, "call", OpOf(d))

\* A, B, A were written in turn and the three entries executed in that order
C4_Witness ==
    /\ Quiet
    /\ Len(Exec("write")) = 3
    /\ Exec("write")[1].cb = <<"fa">> /\ Exec("write")[1].args = <<NIL, 1>>
    /\ Exec("write")[2].cb = <<"fb">> /\ Exec("write")[2].args = <<NIL, -2>>
    /\ Exec("write")[3].cb = <<"fa">> /\ Exec("write")[3].args = <<1, 3>>

\* the positions at which an entry of direction d was enqueued
EnqAt(d) == {i \in 1..Len(shared) : shared[i].e = "enq" /\ DirOf(shared[i].args) = d}

\* a call of Concurrent() for direction d has returned
Decorated(d) == \E x \in made : x.d = d

\* C13: however the threads race through Concurrent(), per direction at most
\* one queue is ever created and at most one consumer goroutine lives, exactly
\* one of each once a decoration has returned; every producer's entry is
\* enqueued after that one creation and is waiting in the one queue, held by
\* the one consumer, or executed: none went to another queue.
C13_OneQueueOneConsumer ==
    \A d \in Dirs :
        /\ Cardinality(Makes(d)) <= 1
        /\ Len(consumers[d]) <= 1
        /\ conMade[d] <=> Makes(d) # {}
        /\ Decorated(d) => Cardinality(Makes(d)) = 1 /\ Len(consumers[d]) = 1
        /\ \A i \in EnqAt(d) : \E j \in Makes(d) : j < i
        /\ {conBuf[d][i].id : i \in 1..Len(conBuf[d])}
              \cup {e.id : e \in Held(d)} \cup {x.id : x \in Range(Exec(d))}
             = {x.id : x \in Range(Enq(d))}

\* the race: p1 has created the queue of a direction and still holds the lock
\* while p2, decorating for the same direction, waits at the lock
C13_Witness ==
    \E d \in Dirs :
        /\ At("p1", "Concurrent", "unlock") /\ Top("p1").t = d
        /\ At("p2", "Concurrent", "lock") /\ Top("p2").t = d
        /\ conLock[d] = "p1"
        /\ Cardinality(Makes(d)) = 1

\* thread th takes a step of Value or SetValue
StepsIn(th, ops) ==
    Running(th) /\ Top(th).op \in ops /\ stack'[th] # stack[th]

\* the queue of a direction exists exactly from the first Concurrent() call on:
\* a queue or a consumer was created by a decorating thread, a returned
\* decoration has left the queue and its consumer behind, and nothing was
\* enqueued before the queue was created
C14_RunningSinceDecoration ==
    \A d \in Dirs :
        /\ (conMade[d] \/ consumers[d] # <<>>) =>
              \E j \in Makes(d) : shared[j].who \in Threads
        /\ Decorated(d) => conMade[d] /\ Len(consumers[d]) = 1
        /\ \A i \in EnqAt(d) : \E j \in Makes(d) : j < i

\* a step of Value / SetValue, the invocation of a decorated callback among
\* them, creates no queue and starts no consumer; a queue is created only by
\* the make statement of Concurrent()
C14_InvocationOnlyEnqueues ==
    /\ \A th \in Threads :
          StepsIn(th, {"Value", "SetValue"}) =>
              /\ conMade' = conMade
              /\ \A d \in Dirs : Len(consumers'[d]) = Len(consumers[d])
    /\ conMade' # conMade =>
          \E th \in Threads : At(th, "Concurrent", "make") /\ stack'[th] # stack[th]

\* C14 as claimed: before the first invocation of a Concurrent-decorated
\* callback of a direction, no queue and no consumer exist for that direction.
C14_Original ==
    \A d \in Dirs : Enq(d) = <<>> => ~conMade[d] /\ consumers[d] = <<>>

\* C14, amended: Uninitialized -> Running is triggered by the first call of
\* Concurrent() for the direction, the decoration: that call creates the
\* bounded queue and starts the consumer, before it no queue or consumer
\* exists, and the invocations of the decorated callback only enqueue.
C14_InitAtDecoration ==
    /\ []C14_RunningSinceDecoration
    /\ [][C14_InvocationOnlyEnqueues]_vars

\* a queue was created by a decoration, the first entry was enqueued after
\* that and has been executed
C14_Witness ==
    \E d \in Dirs :
        /\ Decorated(d) /\ conMade[d]
        /\ Len(Exec(d)) >= 1
        /\ \A i \in EnqAt(d) : \A j \in Makes(d) : j < i

----------------------------------------------------------------------------
(* Claims checked under SpecDrain *)

\* every invocation of a decorated callback has enqueued one entry, and every
\* entry enqueued is waiting, held by the consumer, or executed, exactly once
C3_Conserved ==
    \A d \in Dirs :
        LET waiting == {conBuf[d][i].id : i \in 1..Len(conBuf[d])}
            held == {e.id : e \in Held(d)}
            done == {x.id : x \in Range(Exec(d))}
        IN  /\ NumCalls("p1", "ret", OpOf(d)) <= Len(Enq(d))
            /\ Len(Enq(d)) <= NumCalls("p1", "call", OpOf(d))
            /\ Cardinality(done) = Len(Exec(d))
            /\ Cardinality(waiting) = Len(conBuf[d])
            /\ waiting \cap held = {} /\ waiting \cap done = {}
            /\ held \cap done = {}
            /\ waiting \cup held \cup done = {x.id : x \in Range(Enq(d))}

Enqueued(n) == \E x \in Range(shared) : x.e = "enq" /\ x.id = n
Executed(n) == \E x \in Range(shared) : x.e = "cb" /\ x.who = "con" /\ x.id = n

\* C3: with the queues running, the M invocations made by M Value() (or
\* SetValue) calls on a Trigger enqueue exactly M entries; no entry is lost or
\* executed twice; and every entry enqueued is eventually executed.
C3_AllExecuted ==
    /\ []C3_Conserved
    /\ \A n \in 1..DrainCalls : Enqueued(n) ~> Executed(n)

\* two Value() calls and one SetValue call on A have returned, and their entries
\* were executed: two by the read consumer, one by the write consumer
C3_Witness ==
    /\ Quiet
    /\ NumCalls("p1", "ret", "Value") = 2
    /\ NumCalls("p1", "ret", "SetValue") = 1
    /\ Len(Exec("read")) = 2
    /\ Len(Exec("write")) = 1

----------------------------------------------------------------------------
(* Claims checked under SpecAsync *)

\* the goroutines started by Async callbacks and the executions of the wrapped
\* functions by these goroutines, in order
Started == SelectSeq(shared, LAMBDA x : x.e = "go")
Ran == SelectSeq(shared, LAMBDA x : x.e = "cb" /\ x.who = "go")

\* the number of goroutines started by invocations of direction d
StartedFor(d) == Cardinality({i \in 1..Len(Started) : DirOf(Started[i].args) = d})

\* every invocation started one goroutine; a goroutine started has either not
\* run yet or executed the wrapped function once, with the function and the
\* arguments of the invocation that started it
C9_OwnArguments ==
    /\ \A d \in Dirs :
          /\ NumCalls("p1", "ret", OpOf(d)) <= StartedFor(d)
          /\ StartedFor(d) <= NumCalls("p1", "call", OpOf(d))
    /\ Cardinality({x.id : x \in Range(Ran)}) = Len(Ran)
    /\ {x.id : x \in Range(Ran)} \cap {task.id : task \in tasks} = {}
    /\ {x.id : x \in Range(Ran)} \cup {task.id : task \in tasks}
          = {x.id : x \in Range(Started)}
    /\ \A x \in Range(Ran) :
          \E i \in 1..Len(Started) :
              /\ Started[i].id = x.id
              /\ Started[i].cb = x.cb
              /\ Started[i].args = x.args

WasStarted(n) == \E x \in Range(Started) : x.id = n
HasRun(n) == \E x \in Range(Ran) : x.id = n

\* C9: every invocation of an Async callback starts one goroutine, and with the
\* goroutines scheduled fairly each of them eventually executes the wrapped
\* function exactly once, with the arguments of its own invocation.
C9_AsyncAllRun ==
    /\ []C9_OwnArguments
    /\ \A n \in 1..AsyncCalls : WasStarted(n) ~> HasRun(n)

\* three invocations have started three goroutines, all have run, and the one
\* started last ran first: the executions follow no order
C9_Witness ==
    /\ Idle
    /\ tasks = {}
    /\ Len(Ran) = 3
    /\ Ran[1].id = 3 /\ Ran[2].id = 1 /\ Ran[3].id = 2

----------------------------------------------------------------------------
(* Claims checked under SpecKill *)

\* the positions at which direction d was torn down
KillsAt(d) == {i \in 1..Len(shared) : shared[i].e = "kill" /\ shared[i].t = d}

\* direction d was torn down and no queue has been created since
Stopped(d) ==
    \E i \in KillsAt(d) : \A j \in Makes(d) : j < i

\* the position at which the entry numbered n was enqueued
EnqPos(n) == CHOOSE i \in 1..Len(shared) : shared[i].e = "enq" /\ shared[i].id = n

\* thread th is about to invoke a Concurrent-decorated callback of direction d
Invoking(th, d) ==
    /\ Running(th) /\ Top(th).pc = "cb" /\ Top(th).op = OpOf(d)
    /\ Head((IF d = "read" THEN readCallbacks ELSE writeCallbacks)
               [Top(th).t][Top(th).i]) = "Concurrent"

\* the invocation th is about to make does not block
Proceeds(th) == ENABLED (ValueCallback(th) \/ SetValueCallback(th))

\* after a teardown no queue and no consumer are left until Concurrent() is
\* called again; that call creates a new, empty queue and one new consumer;
\* whatever a consumer receives or executes was enqueued after the last
\* teardown that precedes it
C12_FreshQueue ==
    \A d \in Dirs :
        /\ Stopped(d) => ~conMade[d] /\ consumers[d] = <<>>
        /\ Len(consumers[d]) <= 1
        /\ Cardinality(Makes(d)) - Cardinality(KillsAt(d)) \in {0, 1}
        /\ (conMade[d] /\ consumers[d] # <<>>) =>
              \A i \in 1..Len(conBuf[d]) :
                  \A j \in KillsAt(d) : j < EnqPos(conBuf[d][i].id)
        /\ \A i \in 1..Len(shared) :
              (shared[i].t = d /\ shared[i].who = "con") =>
                  \A j \in KillsAt(d) : j < i => j < EnqPos(shared[i].id)

\* entry n was enqueued onto a queue that has since been torn down
Discarded(n) ==
    Enqueued(n) /\ \E d \in Dirs : \E j \in KillsAt(d) : EnqPos(n) < j

\* C12 as claimed: after the teardown of a direction an invocation of a
\* Concurrent-decorated callback of that direction re-initializes the queue
\* and is executed: it never finds the direction stopped and waits.
C12_Original ==
    \A d \in Dirs : \A th \in Threads :
        (Stopped(d) /\ Invoking(th, d)) => Proceeds(th)

\* C12, amended: after teardown of a direction its consumer is stopped and its
\* queue discarded; a subsequent call of Concurrent() for that direction (not
\* an invocation of an already decorated callback) creates a fresh queue and
\* a fresh consumer, which executes every invocation enqueued afterwards and
\* none of the entries enqueued before the teardown.
C12_Teardown ==
    /\ []C12_FreshQueue
    /\ \A n \in 1..KillCalls : Enqueued(n) ~> (Executed(n) \/ Discarded(n))

\* the first entry was still waiting when the queue was torn down; after a
\* second decoration another entry was enqueued and only that one executed
C12_Witness ==
    \E d \in Dirs :
        /\ Cardinality(KillsAt(d)) = 1 /\ Cardinality(Makes(d)) = 2
        /\ Ids(Enq(d)) = <<1, 2>>
        /\ Ids(Exec(d)) = <<2>>
        /\ Discarded(1) /\ ~Discarded(2)

----------------------------------------------------------------------------
(* Claims checked under SpecFull *)

\* thread th, inside a call, can take its next step
CanStep(th) == ENABLED (ValueStep(th) \/ SetValueStep(th))

\* the position in the history of the n-th event e of direction d
NthOf(e, d, n) ==
    Ascending({i \in 1..Len(shared) :
                 /\ shared[i].e = e
                 /\ (IF e = "enq" THEN DirOf(shared[i].args) ELSE shared[i].t) = d})[n]

\* C15: the queue of a direction never holds more than 100 entries; a thread
\* inside Value / SetValue is unable to go on exactly when it is about to
\* invoke a Concurrent-decorated callback and the queue holds 100 entries, so
\* it goes on as soon as the consumer has taken one; in every other state,
\* also right after enqueuing and with its entry not yet executed, it goes on.
C15_BlocksIffFull ==
    /\ \A d \in Dirs : Len(conBuf[d]) <= QueueCap
    /\ \A th \in Threads :
          Running(th) /\ Top(th).op \in {"Value", "SetValue"} =>
              (~CanStep(th) <=>
                   \E d \in Dirs : Invoking(th, d) /\ Len(conBuf[d]) = QueueCap)
    /\ \A d \in Dirs :
          Len(Exec(d)) <= Len(Enq(d)) /\ Len(Enq(d)) - Len(Exec(d)) <= QueueCap + 1

\* 100 calls returned with none of their entries executed; the 101st call
\* found the queue full and enqueued only after the consumer had received the
\* first entry
C15_Witness ==
    \E d \in Dirs :
        /\ Len(Enq(d)) = QueueCap + 1
        /\ Len(Deq(d)) >= 1
        /\ NthOf("enq", d, QueueCap) < NthOf("deq", d, 1)
        /\ NthOf("deq", d, 1) < NthOf("enq", d, QueueCap + 1)
        /\ NumCalls("p1", "ret", OpOf(d)) >= QueueCap
        /\ Exec(d) = <<>>

----------------------------------------------------------------------------
(* Claims checked under SpecLock *)

\* the positions at which a frame holds the lock of its Trigger
Critical == {"load", "store", "unlock"}

\* Trigger.Lock is held by a thread only between the Lock() and the Unlock()
\* of its innermost frame: never by a Value / SetValue that is in its callback
\* loop or its binding loop, whatever the callbacks and the Binder do
C16_LockNotHeldInCallbacks ==
    \A th \in Threads : \A t \in Triggers :
        Lock[t] = th =>
            /\ Running(th) /\ Top(th).t = t /\ Top(th).pc \in Critical
            /\ \A n \in 1..(Len(stack[th]) - 1) :
                  stack[th][n].pc \in {"cb", "bind"}

\* a thread inside a call that cannot take a step waits for a lock that another
\* thread holds, and that thread can take a step
C16_NoSelfDeadlock ==
    \A th \in Threads :
        (Running(th) /\ ~ENABLED LockStep(th)) =>
            /\ Top(th).pc = "lock"
            /\ \E o \in Threads \ {th} :
                  Lock[Top(th).t] = o /\ ENABLED LockStep(o)

\* C16: the Trigger's lock is never held by Value / SetValue while a callback
\* or a binding propagation runs, so a plain callback that calls Value() or
\* SetValue on the same Trigger, or takes the Trigger's Lock itself, is never
\* stopped by the call that invoked it.
C16_CallbacksOutsideLock == C16_LockNotHeldInCallbacks /\ C16_NoSelfDeadlock

\* p1's SetValue has returned after its write callbacks called Value() on the
\* same Trigger and took the Trigger's lock, while p2 was calling too
C16_Witness ==
    /\ Idle
    /\ writeCallbacks["A"] = << <<"reread">>, <<"locker">> >>
    /\ Len(trace["p2"]) > 0
    /\ \E k \in 1..Len(H) :
          /\ H[k].e = "ret" /\ H[k].cb = <<"SetValue">> /\ H[k].id = 1
          /\ \E m \in 1..k : H[m].e = "ret" /\ H[m].cb = <<"Value">> /\ H[m].id = 2
          /\ \E m \in 1..k : H[m].e = "cb" /\ H[m].cb = <<"locker">>

----------------------------------------------------------------------------
(* Claims checked under SpecLoop *)

\* the events of the activation called at c and returned at k, the call and
\* the return left out
Inside(c, k) == {H[m] : m \in (c + 1)..(k - 1)}

\* between the call and the return of a Value() there are executions of read
\* callbacks only: no write callback, no mapping, no call of a Binder; between
\* those of the caller's SetValue there is no execution of a read callback
C19_OwnCallbacksOnly ==
    \A k \in 1..Len(H) :
        (H[k].e = "ret" /\ H[k].id = 1) =>
            LET in == Inside(CallOf(k), k)
            IN  IF H[k].cb = <<"Value">>
                THEN \A x \in in : x.e = "cb" /\ x.cb \in Range(readCallbacks[H[k].t])
                ELSE \A x \in in : x.e = "cb" => x.cb \in Range(writeCallbacks[H[k].t])

\* the i-th value the read callback was handed and the i-th new value the
\* write callback was handed differ by one, and after each round of the loop
\* both callbacks have run equally often
C19_OffsetByOne ==
    LET reads == CbArgs("A", <<"r">>)
        writes == CbArgs("A", <<"w">>)
    IN  /\ Len(writes) <= Len(reads) /\ Len(reads) <= Len(writes) + 1
        /\ \A i \in 1..Len(writes) : writes[i][2] = reads[i][1] + 1
        /\ (Idle /\ Returned("SetValue")) => Len(reads) = Len(writes)

\* a step of Value leaves every Trigger's stored value as it is
C19_ValueStores ==
    \A th \in Threads : StepsIn(th, {"Value"}) => value' = value

\* C19: Value() leaves the stored value unchanged and invokes no write
\* callback and no binding; SetValue invokes no read callback; in the loop
\* SetValue(Value() + 1) the i-th value seen by the read callback and the i-th
\* new value seen by the write callback differ by exactly one and both
\* callbacks fire the same number of times.
C19_CombinedCallbacks ==
    /\ [](C19_OwnCallbacksOnly /\ C19_OffsetByOne)
    /\ [][C19_ValueStores]_vars

\* three rounds of the loop from the start value 2, with A bound to B: the
\* read callback saw 2, 3, 4 and the write callback 3, 4, 5
C19_Witness ==
    /\ Idle
    /\ Len(bindings["A"]) = 1
    /\ CbArgs("A", <<"r">>) = << <<2>>, <<3>>, <<4>> >>
    /\ CbArgs("A", <<"w">>) = << <<2, 3>>, <<3, 4>>, <<4, 5>> >>
    /\ value["A"] = 5

----------------------------------------------------------------------------
(* Claims checked under SpecRace *)

\* the (prev, v) pairs the write callback has been handed by thread th
PairsOf(th) ==
    {trace[th][i].args : i \in {j \in 1..Len(trace[th]) : trace[th][j].e = "cb"}}

Pairs == UNION {PairsOf(th) : th \in Threads}

\* the number of executions of the write callback
NumPairs ==
    SumOver(Threads, [th \in Threads |-> CountIn(trace[th], "cb")])

\* the number of links that follow one another starting from the value x
RECURSIVE Walk(_, _)
Walk(x, P) ==
    IF \E p \in P : p[1] = x
    THEN LET p == CHOOSE q \in P : q[1] = x
         IN  1 + Walk(p[2], P \ {p})
    ELSE 0

\* the value at which the links starting from x end
RECURSIVE EndOf(_, _)
EndOf(x, P) ==
    IF \E p \in P : p[1] = x
    THEN LET p == CHOOSE q \in P : q[1] = x
         IN  EndOf(p[2], P \ {p})
    ELSE x

\* C20: with several threads calling SetValue concurrently on one Trigger with
\* pairwise distinct values, no two calls are handed the same prev; once all
\* calls have returned, exactly one was handed the value stored before all of
\* them (nil), every other prev is the v of exactly one other call, the pairs
\* form one chain from nil, and the value stored is the v of its last link.
C20_SingleChain ==
    /\ Cardinality(Pairs) = NumPairs
    /\ \A p, q \in Pairs : p[1] = q[1] => p = q
    /\ Idle =>
          /\ NumPairs = Calls
          /\ Calls > 0 => Cardinality({p \in Pairs : p[1] = NIL}) = 1
          /\ \A p \in Pairs :
                p[1] # NIL => Cardinality({q \in Pairs : q # p /\ q[2] = p[1]}) = 1
          /\ Walk(NIL, Pairs) = Calls
          /\ value["A"] = EndOf(NIL, Pairs)

\* the callbacks ran against the chain order: p2's callback has run for the
\* second link (1, 2) while p1, which stored 1 first, has not yet run its
\* callback for the first link (nil, 1)
C20_Witness ==
    /\ At("p1", "SetValue", "cb")
    /\ Top("p1").prev = NIL /\ Top("p1").v = 1
    /\ PairsOf("p1") = {}
    /\ <<1, 2>> \in PairsOf("p2")

====
